---- MODULE Spec2Model ----
(***************************************************************************)
(* The TestBuddy coding session of LearnMate: the Run / Submit state       *)
(* machine of components/TestBuddy.tsx, the judge client                   *)
(* evaluateCodeWithAI (both versions kept in the repository), the Timer    *)
(* component, the attempt recorder (handleCodingAttempt /                 *)
(* saveCodingResult) and the two text helpers parseError and               *)
(* extractInputValue, on texts as sequences of characters; and the         *)
(* getTranscript cloud function of functions/index.js with its Firestore   *)
(* cache (both versions kept in the file).                                 *)
(*                                                                         *)
(* React state is modelled by one variable per useState cell.  An event    *)
(* handler runs to its first await in one step; the part after the await   *)
(* is a second step that uses the values the handler closed over when it   *)
(* was called (problem, language, code), which the model keeps in the      *)
(* record of the call.  The reset effect on [activeCodingProblem,          *)
(* language] is part of the step that changes either of them.              *)
(***************************************************************************)
EXTENDS Integers, Sequences, FiniteSets, TLC

\* ------------------------------------------------------------------ bounds
NumProblems == 2          \* problems the generator can hand out
MaxCalls == 2             \* evaluateCodeWithAI calls in one behaviour
MaxPendingFetches == 1    \* generateCodingProblem calls in flight at once
ExtraResults == 1         \* how much longer than the request a response can be
TimerSteps == 1           \* ticks in which the countdown reaches zero
NumStatuses == 3          \* statuses the oracle answers with
MaxTokens == 4            \* tokens an error text is made of
MaxInputLen == 5          \* characters of a test case input
MaxRequests == 2          \* getTranscript requests
MaxApplications == 2      \* times the input stripping is applied in a row

\* --------------------------------------------------------- program values
Null == "null"
None == {}
Some(x) == {x}
TheValue(o) == CHOOSE x \in o : TRUE

Languages == {"javascript", "python"}
StatusOrder == <<"Accepted", "Wrong Answer", "Runtime Error",
                 "Compilation Error", "Time Limit Exceeded">>
OracleStatuses == {StatusOrder[k] : k \in 1..NumStatuses}
initialMinutes == 25
InitialSeconds == initialMinutes * 60
NaN == -1

\* hidden test cases and visible examples of the problems the generator
\* returns (problem 1 has an empty hidden list)
TestCaseCounts == <<0, 1, 2, 3>>
ExampleCounts == <<1, 1, 2, 2>>
ProblemIds == 1..NumProblems
NoProblem == 0
TestCaseCount(p) == TestCaseCounts[p]
ExampleCount(p) == ExampleCounts[p]

\* code texts: the starter code of the problem and language, or a user edit
StarterCode == "starter"
EditedCode == "edited"

\* texts are sequences of characters
Digits == <<"0", "1", "2", "3", "4", "5", "6", "7", "8", "9">>
LowerLetters == {"a", "b", "c", "d", "e", "f", "g", "h", "i", "j", "k", "l",
                 "m", "n", "o", "p", "q", "r", "s", "t", "u", "v", "w", "x",
                 "y", "z"}
UpperLetters == {"A", "B", "C", "D", "E", "F", "G", "H", "I", "J", "K", "L",
                 "M", "N", "O", "P", "Q", "R", "S", "T", "U", "V", "W", "X",
                 "Y", "Z"}
DigitChars == {Digits[d] : d \in 1..10}
PathChars == LowerLetters \cup UpperLetters \cup DigitChars
             \cup {"/", ".", "_", "-"}
\* the characters String.prototype.trim removes (those the texts here use)
WhiteSpace == {" ", "\t", "\n", "\r"}

\* error texts: the empty string, the message the oracle gives for a
\* compilation / runtime error of case i (it names line i), and the
\* compile_output of the synthetic result, 'Evaluation failed due to AI
\* error.', cut to its last words (no part of it names a line)
EmptyText == <<>>
LineText(i) == <<"a", ".", "j", "s", ":", Digits[i + 1]>>
AiErrorText == <<"A", "I", " ", "e", "r", "r", "o", "r", ".">>

VARIABLES
    serviceVariant,            \* which evaluateCodeWithAI the build imports
    view,
    isLoading,
    pendingFetches,            \* generateCodingProblem calls in flight
    activeCodingProblem,
    language,
    code,
    isExecuting,
    runResults,
    submissionResults,
    overallSubmissionStatus,
    hint,
    isHintLoading,
    failureExplanation,
    isExplanationLoading,
    isCodingTimerRunning,
    codeError,
    seconds,                   \* state of the Timer component
    calls,                     \* evaluateCodeWithAI calls, by call number
    advisory,                  \* hint / explanation calls in flight
    attempts,                  \* what onCodingAttempt was called with
    untouched,                 \* no Run, Submit or Get Hint since the last reset
    text,                      \* the argument of the helper under test
    diagnostic,                \* what parseError returned for it
    stdin,                     \* what extractInputValue returned
    applied,                   \* how often the helper has been applied
    functionVariant,           \* which getTranscript is deployed
    transcripts,               \* the Firestore collection, by document id
    handlers                   \* getTranscript invocations, by request

vars == <<serviceVariant, view, isLoading, pendingFetches,
          activeCodingProblem, language, code, isExecuting, runResults,
          submissionResults, overallSubmissionStatus, hint, isHintLoading,
          failureExplanation, isExplanationLoading,
          isCodingTimerRunning, codeError, seconds, calls, advisory,
          attempts, untouched, text, diagnostic, stdin, applied,
          functionVariant, transcripts, handlers>>

navVars == <<view, isLoading, pendingFetches>>
sessionVars == <<activeCodingProblem, language, code>>
resultVars == <<runResults, submissionResults, overallSubmissionStatus,
                codeError>>
advisoryVars == <<hint, isHintLoading, failureExplanation,
                  isExplanationLoading, advisory>>
timerVars == <<isCodingTimerRunning, seconds>>
functionVars == <<functionVariant, transcripts, handlers>>
helperVars == <<text, diagnostic, stdin, applied, functionVars>>
componentVars == <<serviceVariant, navVars, sessionVars, isExecuting,
                   resultVars, advisoryVars, timerVars, calls, attempts,
                   untouched>>

\* ------------------------------------------------------------ pure helpers
\* videoId values of a request body (the empty one stands for a missing
\* videoId), their lengths, and the ids a document can be stored under
VideoIds == {"", "abc", "dQw4w9WgXcQ"}
IdLength(videoId) ==
    CASE videoId = "" -> 0
      [] videoId = "abc" -> 3
      [] OTHER -> 11
DocIds == VideoIds \ {""}
Methods == {"GET", "POST", "OPTIONS"}
\* what YoutubeTranscript.fetchTranscript resolves with: the text of each part
TranscriptParts == {<<>>, << <<"a">> >>, << <<"a", " ">>, <<"b">> >>}

\* a || b on error texts
OrText(a, b) == IF a # EmptyText THEN a ELSE b

\* String.prototype.trim
RECURSIVE TrimStart(_)
TrimStart(s) ==
    IF s # <<>> /\ Head(s) \in WhiteSpace THEN TrimStart(Tail(s)) ELSE s
RECURSIVE TrimEnd(_)
TrimEnd(s) ==
    IF s # <<>> /\ s[Len(s)] \in WhiteSpace
    THEN TrimEnd(SubSeq(s, 1, Len(s) - 1)) ELSE s
Trim(s) == TrimEnd(TrimStart(s))

\* the character classes of the pattern of parseError
IsDigit(ch) == ch \in DigitChars
IsPathChar(ch) == ch \in PathChars

\* the last index of the longest run of digits of s that starts at p
RECURSIVE DigitRunEnd(_, _)
DigitRunEnd(s, p) ==
    IF p <= Len(s) /\ IsDigit(s[p]) THEN DigitRunEnd(s, p + 1) ELSE p - 1
\* the same for [a-zA-Z0-9\/\._-]
RECURSIVE PathRunEnd(_, _)
PathRunEnd(s, p) ==
    IF p <= Len(s) /\ IsPathChar(s[p]) THEN PathRunEnd(s, p + 1) ELSE p - 1

\* "line " at p, whatever the case of its letters (the i flag)
LineWordAt(s, p) ==
    /\ p + 4 <= Len(s)
    /\ s[p] \in {"l", "L"}
    /\ s[p + 1] \in {"i", "I"}
    /\ s[p + 2] \in {"n", "N"}
    /\ s[p + 3] \in {"e", "E"}
    /\ s[p + 4] = " "

\* the alternatives of the pattern, tried at position p: the first index of
\* the digit group when the alternative matches there, 0 otherwise
\* (?:[a-zA-Z0-9\/\._-]+):(\d+)
PathColonAt(s, p) ==
    LET q == PathRunEnd(s, p) + 1
    IN  IF q > p /\ q < Len(s) /\ s[q] = ":" /\ IsDigit(s[q + 1])
        THEN q + 1 ELSE 0
\* line (\d+)
LineAt(s, p) ==
    IF LineWordAt(s, p) /\ p + 5 <= Len(s) /\ IsDigit(s[p + 5])
    THEN p + 5 ELSE 0
\* \[Line (\d+)\]
BracketLineAt(s, p) ==
    IF /\ s[p] = "["
       /\ LineWordAt(s, p + 1)
       /\ p + 6 <= Len(s)
       /\ IsDigit(s[p + 6])
       /\ LET e == DigitRunEnd(s, p + 6)
          IN  e < Len(s) /\ s[e + 1] = "]"
    THEN p + 6 ELSE 0

\* a match taken at the rightmost position from p on
MatchLast(s, p) ==
    LET hits == {q \in p..Len(s) : \/ PathColonAt(s, q) # 0
                                   \/ LineAt(s, q) # 0
                                   \/ BracketLineAt(s, q) # 0}
    IN  IF hits = {} THEN 0
        ELSE CHOOSE q \in hits : \A r \in hits : q >= r

\* the leftmost position from p on at which the pattern matches, 0 if none
RECURSIVE MatchFrom(_, _)
MatchFrom(s, p) ==
    IF p > Len(s) THEN 0
    ELSE IF \/ PathColonAt(s, p) # 0
            \/ LineAt(s, p) # 0
            \/ BracketLineAt(s, p) # 0
         THEN p
         ELSE MatchFrom(s, p + 1)

\* match[1] || match[2] || match[3] of a match at p: where the group starts
GroupAt(s, p) ==
    IF PathColonAt(s, p) # 0 THEN PathColonAt(s, p)
    ELSE IF LineAt(s, p) # 0 THEN LineAt(s, p)
    ELSE BracketLineAt(s, p)

\* parseInt(digits, 10)
RECURSIVE parseInt(_)
parseInt(digits) ==
    IF digits = <<>> THEN 0
    ELSE 10 * parseInt(SubSeq(digits, 1, Len(digits) - 1))
         + (CHOOSE d \in 1..10 : Digits[d] = digits[Len(digits)]) - 1

\* a fallback that marks no line
parseErrorNoFallback(errorMessage) ==
    IF errorMessage = <<>> THEN None
    ELSE LET p == MatchFrom(errorMessage, 1)
             g == GroupAt(errorMessage, p)
         IN  IF p # 0
             THEN Some([lineNumber |->
                          parseInt(SubSeq(errorMessage, g,
                                          DigitRunEnd(errorMessage, g))),
                        message |-> Trim(errorMessage)])
             ELSE None

\* parseError: String.prototype.match returns the leftmost match
parseError(errorMessage) ==
    IF errorMessage = <<>> THEN None
    ELSE LET p == MatchFrom(errorMessage, 1)
             g == GroupAt(errorMessage, p)
         IN  IF p # 0
             THEN Some([lineNumber |->
                          parseInt(SubSeq(errorMessage, g,
                                          DigitRunEnd(errorMessage, g))),
                        message |-> Trim(errorMessage)])
             ELSE Some([lineNumber |-> 1, message |-> Trim(errorMessage)])

\* extractInputValue: String.prototype.split on the newline character
RECURSIVE Lines(_)
Lines(s) ==
    LET breaks == {k \in 1..Len(s) : s[k] = "\n"}
    IN  IF breaks = {} THEN <<s>>
        ELSE LET k == CHOOSE x \in breaks : \A y \in breaks : x <= y
             IN  <<SubSeq(s, 1, k - 1)>> \o Lines(SubSeq(s, k + 1, Len(s)))
\* Array.prototype.join on the newline character
RECURSIVE JoinLines(_)
JoinLines(lines) ==
    IF Len(lines) = 1 THEN lines[1]
    ELSE lines[1] \o <<"\n">> \o JoinLines(Tail(lines))

\* a stripping that cuts at the last '=' of the line
StripAtLastEquals(line) ==
    LET eqs == {k \in 1..Len(line) : line[k] = "="}
    IN  IF eqs # {}
        THEN Trim(SubSeq(line, (CHOOSE x \in eqs : \A y \in eqs : x >= y) + 1,
                         Len(line)))
        ELSE Trim(line)

\* the callback of the map: the text after the first '=', trimmed
StripLine(line) ==
    LET eqs == {k \in 1..Len(line) : line[k] = "="}
    IN  IF eqs # {}
        THEN Trim(SubSeq(line, (CHOOSE x \in eqs : \A y \in eqs : x <= y) + 1,
                         Len(line)))
        ELSE Trim(line)

extractInputValue(input) ==
    LET lines == Lines(input)
    IN  JoinLines([k \in 1..Len(lines) |-> StripLine(lines[k])])

\* one element of the oracle's JSON "results" array for case i
OracleResult(s, i) ==
    [status |-> s,
     compile_output |-> IF s = "Compilation Error" THEN LineText(i)
                        ELSE EmptyText,
     stderr |-> IF s = "Runtime Error" THEN LineText(i) ELSE EmptyText]

SyntheticResult ==
    [status |-> "Compilation Error", compile_output |-> AiErrorText,
     stderr |-> EmptyText]

\* what the oracle can answer to a request of n cases: a status list of any
\* length up to n + ExtraResults
Responses(n) ==
    UNION {[1..m -> OracleStatuses] : m \in 0..(n + ExtraResults)}
ParsedResults(response) ==
    [i \in 1..Len(response) |-> OracleResult(response[i], i)]

\* evaluateCodeWithAI without try / catch: a failed call or an unparsable
\* answer throws, a parsed answer is returned as it is
EvaluatePlain(n, ok, response) ==
    IF ok THEN Some(ParsedResults(response)) ELSE None

\* evaluateCodeWithAI with try / catch: testCases[index].expectedOutput
\* throws inside the try for an index beyond the request
EvaluateGuarded(n, ok, response) ==
    IF ok /\ Len(response) <= n THEN Some(ParsedResults(response))
    ELSE Some([i \in 1..n |-> SyntheticResult])

evaluateCodeWithAI(n, ok, response) ==
    IF serviceVariant = "plain" THEN EvaluatePlain(n, ok, response)
    ELSE EvaluateGuarded(n, ok, response)

\* a findIndex that reports the last failing case instead of the first
LastFailureIndex(results) ==
    LET failing == {i \in 1..Len(results) : results[i].status # "Accepted"}
    IN  IF failing = {} THEN 0
        ELSE CHOOSE i \in failing : \A j \in failing : i >= j

\* results.findIndex(r => r.status !== 'Accepted'), 1-based, 0 for -1
FirstFailureIndex(results) ==
    LET failing == {i \in 1..Len(results) : results[i].status # "Accepted"}
    IN  IF failing = {} THEN 0
        ELSE CHOOSE i \in failing : \A j \in failing : i <= j

PassedCount(results) ==
    Cardinality({i \in 1..Len(results) : results[i].status = "Accepted"})

\* parseFloat(((passedCount / length) * 100).toFixed(2)), in hundredths
Score(passedCount, length) ==
    IF length = 0 THEN NaN
    ELSE (2 * passedCount * 10000 + length) \div (2 * length)

\* results.find(res => Compilation Error or Runtime Error), 0 if none
FirstErrorIndex(results) ==
    LET errs == {i \in 1..Len(results) :
                    results[i].status \in {"Compilation Error", "Runtime Error"}}
    IN  IF errs = {} THEN 0
        ELSE CHOOSE i \in errs : \A j \in errs : i <= j

\* ------------------------------------------------------------------- Init
\* the helpers under test are at rest while the session runs
\* the cloud function deployed, nothing cached, no request yet
FunctionAtRest ==
    /\ functionVariant = "second"
    /\ transcripts = [v \in DocIds |-> None]
    /\ handlers = <<>>

HelpersAtRest ==
    /\ text = <<>>
    /\ diagnostic = None
    /\ stdin = <<>>
    /\ applied = 0
    /\ FunctionAtRest

\* the component's state after its first render
SessionAtRest ==
    /\ serviceVariant \in {"plain", "guarded"}
    /\ view = "initial"
    /\ isLoading = FALSE
    /\ pendingFetches = 0
    /\ activeCodingProblem = NoProblem
    /\ language = "javascript"
    /\ code = ""
    /\ isExecuting = FALSE
    /\ runResults = None
    /\ submissionResults = None
    /\ overallSubmissionStatus = Null
    /\ hint = Null
    /\ isHintLoading = FALSE
    /\ failureExplanation = Null
    /\ isExplanationLoading = FALSE
    /\ isCodingTimerRunning = FALSE
    /\ codeError = None
    /\ seconds = InitialSeconds
    /\ calls = <<>>
    /\ advisory = {}
    /\ attempts = <<>>
    /\ untouched = FALSE

Init ==
    /\ SessionAtRest
    /\ HelpersAtRest

\* ------------------------------------------------------------- navigation
\* the "Coding Challenge" button and "Back to Difficulty Selection"
GoCodingDifficulty ==
    /\ view \in {"initial", "coding_workspace"}
    /\ view' = "coding_difficulty"
    /\ UNCHANGED <<serviceVariant, helperVars, untouched, isLoading, pendingFetches,
                   sessionVars, isExecuting, resultVars, advisoryVars,
                   timerVars, calls, attempts>>

\* The result tabs only choose what is shown: a button of the Submission tab
\* is taken to be within reach whenever that tab would render it.
\* the "Next Problem" button is rendered under an Accepted verdict
NextProblemShown ==
    /\ view = "coding_workspace"
    /\ overallSubmissionStatus = "Accepted"

\* handleFetchCodingProblem up to its await
handleFetchCodingProblem ==
    /\ \/ view = "coding_difficulty" /\ ~isLoading
       \/ NextProblemShown
    /\ pendingFetches < MaxPendingFetches
    /\ isLoading' = TRUE
    /\ isExecuting' = FALSE
    /\ pendingFetches' = pendingFetches + 1
    /\ UNCHANGED <<serviceVariant, helperVars, untouched, view, sessionVars, resultVars,
                   advisoryVars, timerVars, calls, attempts>>

\* the effect on [activeCodingProblem, language]
ResetForProblem ==
    /\ code' = StarterCode
    /\ runResults' = None
    /\ submissionResults' = None
    /\ overallSubmissionStatus' = Null
    /\ hint' = Null
    /\ failureExplanation' = Null
    /\ codeError' = None
    /\ untouched' = TRUE

\* generateCodingProblem resolves: the rest of handleFetchCodingProblem, the
\* reset effect and, when the workspace was not shown, the Timer's mount
FetchResolve(p) ==
    /\ pendingFetches > 0
    /\ pendingFetches' = pendingFetches - 1
    /\ activeCodingProblem' = p
    /\ view' = "coding_workspace"
    /\ isCodingTimerRunning' = TRUE
    /\ isLoading' = FALSE
    /\ ResetForProblem
    /\ seconds' = IF view = "coding_workspace" THEN seconds ELSE InitialSeconds
    /\ UNCHANGED <<serviceVariant, helperVars, language, isExecuting,
                   isHintLoading, isExplanationLoading, advisory,
                   calls, attempts>>

FetchReject ==
    /\ pendingFetches > 0
    /\ pendingFetches' = pendingFetches - 1
    /\ isLoading' = FALSE
    /\ UNCHANGED <<serviceVariant, helperVars, untouched, view, sessionVars, isExecuting,
                   resultVars, advisoryVars, timerVars,
                   calls, attempts>>

\* the language select
SetLanguage(l) ==
    /\ view = "coding_workspace"
    /\ l # language
    /\ language' = l
    /\ ResetForProblem
    /\ UNCHANGED <<serviceVariant, helperVars, navVars,
                   activeCodingProblem, isExecuting,
                   isHintLoading, isExplanationLoading, advisory,
                   timerVars, calls, attempts>>

\* typing in the editor
EditCode ==
    /\ view = "coding_workspace"
    /\ code' = EditedCode
    /\ code' # code
    /\ UNCHANGED <<serviceVariant, helperVars, untouched, navVars, activeCodingProblem, language,
                   isExecuting, resultVars, advisoryVars, timerVars, calls, attempts>>

\* ------------------------------------------------------------ Run / Submit
\* a settled call keeps its kind and how it ended
Settled(c, outcome) ==
    [kind |-> c.kind, problem |-> NoProblem, language |-> "", code |-> "",
     state |-> outcome]

RequestSize(c) ==
    IF c.kind = "run" THEN ExampleCount(c.problem)
    ELSE TestCaseCount(c.problem)

NewCall(kind) ==
    [kind |-> kind, problem |-> activeCodingProblem, language |-> language,
     code |-> code, state |-> "pending"]

Pending == {i \in 1..Len(calls) : calls[i].state = "pending"}

\* handleRunCode up to its await
handleRunCode ==
    IF activeCodingProblem = NoProblem \/ isExecuting
    THEN UNCHANGED vars
    ELSE /\ Len(calls) < MaxCalls
         /\ isExecuting' = TRUE
         /\ submissionResults' = None
         /\ hint' = Null
         /\ failureExplanation' = Null
         /\ codeError' = None
         /\ calls' = Append(calls, NewCall("run"))
         /\ untouched' = FALSE
         /\ UNCHANGED <<serviceVariant, helperVars, navVars, sessionVars, runResults,
                        overallSubmissionStatus, isHintLoading,
                        isExplanationLoading, advisory, timerVars, attempts>>

\* handleSubmitCode up to its await (the user is signed in whenever the
\* component is shown)
handleSubmitCode ==
    IF activeCodingProblem = NoProblem \/ isExecuting
    THEN UNCHANGED vars
    ELSE /\ Len(calls) < MaxCalls
         /\ isExecuting' = TRUE
         /\ runResults' = None
         /\ hint' = Null
         /\ failureExplanation' = Null
         /\ codeError' = None
         /\ submissionResults' = None
         /\ overallSubmissionStatus' = "Running"
         /\ calls' = Append(calls, NewCall("submit"))
         /\ untouched' = FALSE
         /\ UNCHANGED <<serviceVariant, helperVars, navVars, sessionVars, isHintLoading,
                        isExplanationLoading, advisory, timerVars, attempts>>

\* the "Run Code" and "Submit Code" buttons
ClickRun ==
    /\ view = "coding_workspace"
    /\ handleRunCode

ClickSubmit ==
    /\ view = "coding_workspace"
    /\ handleSubmitCode

\* Timer: one interval tick (the countdown is cut into TimerSteps ticks)
TimerTick ==
    /\ view = "coding_workspace"
    /\ isCodingTimerRunning
    /\ seconds > 0
    /\ seconds' = seconds - InitialSeconds \div TimerSteps
    /\ UNCHANGED <<serviceVariant, helperVars, untouched, navVars, sessionVars, isExecuting,
                   resultVars, advisoryVars, isCodingTimerRunning, calls, attempts>>

\* Timer: the effect calls onTimeout, the handleSubmitCode of the latest
\* render, each time it runs with seconds <= 0
TimerTimeout ==
    /\ view = "coding_workspace"
    /\ isCodingTimerRunning
    /\ seconds <= 0
    /\ handleSubmitCode

\* a record built from what is on screen when the oracle answers
RecordedCurrent(i, passedAll, score) ==
    Append(attempts,
           [call |-> i, testId |-> activeCodingProblem,
            language |-> language,
            codeSubmitted |-> code,
            status |-> IF passedAll THEN "Passed" ELSE "Failed",
            score |-> score,
            saved |-> "saving"])

\* onCodingAttempt(resultData): handleCodingAttempt hands the record to
\* saveCodingResult, which adds one document to codingResults
Recorded(i, passedAll, score) ==
    Append(attempts,
           [call |-> i, testId |-> calls[i].problem,
            language |-> calls[i].language,
            codeSubmitted |-> calls[i].code,
            status |-> IF passedAll THEN "Passed" ELSE "Failed",
            score |-> score,
            saved |-> "saving"])

\* a Run that records its outcome as an Attempt
RunContinuationRecording(i, results) ==
    LET c == calls[i]
    IN  /\ calls' = [calls EXCEPT ![i] = Settled(c, "done")]
        /\ runResults' =
             Some([k \in 1..Len(results) |->
                    [status |-> IF results[k].status = "Accepted"
                                THEN "Passed" ELSE "Failed",
                     error |-> OrText(results[k].stderr,
                                      results[k].compile_output)]])
        /\ attempts' = Recorded(i, FirstFailureIndex(results) = 0, NaN)
        /\ isExecuting' = FALSE
        /\ UNCHANGED <<serviceVariant, helperVars, untouched, navVars,
                       sessionVars, submissionResults,
                       overallSubmissionStatus, codeError, advisoryVars,
                       timerVars>>

\* the rest of handleRunCode, for the call's problem; examples[index] of an
\* index beyond the examples throws before any state is set
RunContinuation(i, results) ==
    LET c == calls[i]
        firstError == FirstErrorIndex(results)
    IN  IF Len(results) > ExampleCount(c.problem)
        THEN /\ calls' = [calls EXCEPT ![i] = Settled(c, "threw")]
             /\ UNCHANGED <<serviceVariant, helperVars, untouched, navVars, sessionVars, isExecuting,
                            resultVars, advisoryVars, timerVars, attempts>>
        ELSE /\ calls' = [calls EXCEPT ![i] = Settled(c, "done")]
             /\ runResults' =
                  Some([k \in 1..Len(results) |->
                         [status |-> IF results[k].status = "Accepted"
                                     THEN "Passed" ELSE "Failed",
                          error |-> OrText(results[k].stderr,
                                           results[k].compile_output)]])
             /\ codeError' =
                  IF firstError # 0
                  THEN parseError(OrText(results[firstError].compile_output,
                                         results[firstError].stderr))
                  ELSE codeError
             /\ isExecuting' = FALSE
             /\ UNCHANGED <<serviceVariant, helperVars, untouched, navVars, sessionVars,
                            submissionResults, overallSubmissionStatus,
                            advisoryVars, timerVars,
                            attempts>>

\* a recorder whose catch withdraws the verdict
handleCodingAttemptSettleWithdrawing(k, ok) ==
    /\ k \in 1..Len(attempts)
    /\ attempts[k].saved = "saving"
    /\ attempts' = [attempts EXCEPT ![k].saved = IF ok THEN "saved" ELSE "logged"]
    /\ overallSubmissionStatus' = IF ok THEN overallSubmissionStatus ELSE Null
    /\ UNCHANGED <<serviceVariant, helperVars, untouched, navVars, sessionVars,
                   isExecuting, runResults, submissionResults, codeError,
                   advisoryVars, timerVars, calls>>

\* saveCodingResult settles: handleCodingAttempt returns, or logs the
\* failure in its catch
handleCodingAttemptSettle(k, ok) ==
    /\ k \in 1..Len(attempts)
    /\ attempts[k].saved = "saving"
    /\ attempts' = [attempts EXCEPT ![k].saved = IF ok THEN "saved" ELSE "logged"]
    /\ UNCHANGED <<serviceVariant, helperVars, untouched, navVars, sessionVars,
                   isExecuting, resultVars, advisoryVars, timerVars, calls>>

\* an explanation asked for whatever the failure is
IsAnyFailure(failedResult) == failedResult.status # "Accepted"

\* the test handleSubmitCode makes before it asks for an explanation
IsWrongAnswer(failedResult) == failedResult.status = "Wrong Answer"

\* the rest of handleSubmitCode; the input and the expected output of hidden
\* case k, copied into the displayed results, are named by k
SubmitContinuation(i, results) ==
    LET c == calls[i]
        firstFailureIndex == FirstFailureIndex(results)
        passedAll == firstFailureIndex = 0
        score == Score(PassedCount(results), Len(results))
    IN  IF Len(results) > TestCaseCount(c.problem)
        THEN /\ calls' = [calls EXCEPT ![i] = Settled(c, "threw")]
             /\ UNCHANGED <<serviceVariant, helperVars, untouched, navVars, sessionVars, isExecuting,
                            resultVars, advisoryVars, timerVars, attempts>>
        ELSE /\ calls' = [calls EXCEPT ![i] = Settled(c, "done")]
             /\ submissionResults' =
                  Some([k \in 1..Len(results) |->
                         [status |-> results[k].status,
                          compile_output |-> results[k].compile_output,
                          stderr |-> results[k].stderr,
                          passed |-> results[k].status = "Accepted",
                          input |-> k,
                          expected |-> k,
                          call |-> i]])
             /\ attempts' = Recorded(i, passedAll, score)
             /\ isExecuting' = FALSE
             /\ IF passedAll
                THEN /\ overallSubmissionStatus' = "Accepted"
                     /\ isCodingTimerRunning' = FALSE
                     /\ UNCHANGED <<codeError, isExplanationLoading, advisory>>
                ELSE LET failedResult == results[firstFailureIndex]
                         parsed == parseError(OrText(failedResult.compile_output,
                                                     failedResult.stderr))
                     IN  /\ overallSubmissionStatus' = failedResult.status
                         /\ codeError' = IF parsed # None THEN parsed
                                         ELSE codeError
                         /\ IF IsWrongAnswer(failedResult)
                            THEN /\ isExplanationLoading' = TRUE
                                 /\ advisory' = advisory \cup
                                      {[kind |-> "explanation", call |-> i,
                                        case |-> firstFailureIndex,
                                        after |-> Len(calls)]}
                            ELSE UNCHANGED <<isExplanationLoading, advisory>>
                         /\ UNCHANGED isCodingTimerRunning
             /\ UNCHANGED <<serviceVariant, helperVars, untouched, navVars, sessionVars, runResults,
                            hint, isHintLoading, failureExplanation,
                            seconds>>

\* the oracle call of call i settles: it resolves with a parsable answer
\* (ok) or fails, evaluateCodeWithAI returns or throws, and the handler
\* that awaited it runs to its end
EvalSettle(i, ok, response) ==
    LET c == calls[i]
        n == RequestSize(c)
        returned == evaluateCodeWithAI(n, ok, response)
    IN  /\ i \in Pending
        /\ response \in Responses(n)
        /\ IF returned = None
           THEN /\ calls' = [calls EXCEPT ![i] = Settled(c, "threw")]
                /\ UNCHANGED <<serviceVariant, helperVars, untouched, navVars, sessionVars,
                               isExecuting, resultVars, advisoryVars,
                               timerVars, attempts>>
           ELSE IF c.kind = "run"
                THEN RunContinuation(i, TheValue(returned))
                ELSE SubmitContinuation(i, TheValue(returned))

\* ------------------------------------------------------ hint / explanation
\* a find that reports the last failed test
LastNotPassed(rs) ==
    LET failing == {k \in 1..Len(rs) : ~rs[k].passed}
    IN  IF failing = {} THEN 0
        ELSE CHOOSE k \in failing : \A j \in failing : k >= j

\* submissionResults.find(r => !r.passed), as an index, 0 if none
FirstNotPassed(rs) ==
    LET failing == {k \in 1..Len(rs) : ~rs[k].passed}
    IN  IF failing = {} THEN 0
        ELSE CHOOSE k \in failing : \A j \in failing : k <= j

\* the Submission panel (the one handleSubmitCode selects) under a failing
\* verdict: the hidden cases whose input and expected output are both
\* rendered, which are those of the first failed test
ShownHiddenCases ==
    IF \/ view # "coding_workspace"
       \/ overallSubmissionStatus \in {Null, "Running", "Accepted"}
       \/ submissionResults = None
    THEN {}
    ELSE LET rs == TheValue(submissionResults)
             failedTest == FirstNotPassed(rs)
         IN  IF failedTest = 0 THEN {}
             ELSE {k \in 1..Len(rs) : /\ rs[failedTest].input = k
                                      /\ rs[failedTest].expected = k}

\* the "Get a Hint" button is rendered under a failing verdict that has a
\* failed test
HintButtonShown ==
    /\ view = "coding_workspace"
    /\ overallSubmissionStatus \notin {Null, "Accepted", "Running"}
    /\ submissionResults # None
    /\ FirstNotPassed(TheValue(submissionResults)) # 0

\* handleGetHint up to its await
handleGetHint ==
    IF \/ activeCodingProblem = NoProblem
       \/ isHintLoading
       \/ submissionResults = None
       \/ Len(TheValue(submissionResults)) = 0
       \/ FirstNotPassed(TheValue(submissionResults)) = 0
    THEN UNCHANGED vars
    ELSE LET rs == TheValue(submissionResults)
             k == FirstNotPassed(rs)
         IN  /\ isHintLoading' = TRUE
             /\ hint' = ""
             /\ advisory' = advisory \cup
                  {[kind |-> "hint", call |-> rs[k].call, case |-> k,
                    after |-> Len(calls)]}
             /\ untouched' = FALSE
             /\ UNCHANGED <<serviceVariant, helperVars, navVars, sessionVars, isExecuting,
                            resultVars, failureExplanation,
                            isExplanationLoading, timerVars,
                            calls, attempts>>

ClickGetHint ==
    /\ HintButtonShown
    /\ handleGetHint

\* generateCodeHint settles and handleGetHint runs to its end: the guarded
\* service turns a failure into its own fallback text, the plain one throws
\* into the handler's catch
HintSettle(a, ok) ==
    /\ a \in advisory
    /\ a.kind = "hint"
    /\ advisory' = advisory \ {a}
    /\ hint' = IF ok THEN "hint text"
               ELSE IF serviceVariant = "guarded"
                    THEN "Focus on the logic near the failing test case input."
                    ELSE "Sorry, an error occurred while generating a hint."
    /\ isHintLoading' = FALSE
    /\ UNCHANGED <<serviceVariant, helperVars, untouched, navVars, sessionVars, isExecuting,
                   resultVars, failureExplanation, isExplanationLoading,
                   timerVars, calls, attempts>>

\* generateFailureExplanation settles: the .then callback of
\* handleSubmitCode runs unless the plain service rejected
ExplanationSettle(a, ok) ==
    /\ a \in advisory
    /\ a.kind = "explanation"
    /\ advisory' = advisory \ {a}
    /\ IF ok \/ serviceVariant = "guarded"
       THEN /\ failureExplanation' =
                 IF ok THEN "explanation text"
                 ELSE "An error occurred during analysis."
            /\ isExplanationLoading' = FALSE
       ELSE UNCHANGED <<failureExplanation, isExplanationLoading>>
    /\ UNCHANGED <<serviceVariant, helperVars, untouched, navVars, sessionVars, isExecuting,
                   resultVars, hint, isHintLoading, timerVars, calls, attempts>>

\* ------------------------------------------------------------------- Spec
Next ==
    \/ GoCodingDifficulty
    \/ handleFetchCodingProblem
    \/ \E p \in ProblemIds : FetchResolve(p)
    \/ FetchReject
    \/ \E l \in Languages : SetLanguage(l)
    \/ ClickRun
    \/ ClickSubmit
    \/ TimerTick
    \/ TimerTimeout
    \/ \E i \in Pending :
          \/ \E r \in Responses(RequestSize(calls[i])) : EvalSettle(i, TRUE, r)
          \/ EvalSettle(i, FALSE, <<>>)
    \/ ClickGetHint
    \/ \E a \in advisory, ok \in BOOLEAN : HintSettle(a, ok)
    \/ \E a \in advisory, ok \in BOOLEAN : ExplanationSettle(a, ok)

Spec == Init /\ [][Next]_vars

\* One problem session: any problem of the catalogue has just become active
\* (the state FetchResolve leaves) and the user runs and submits.
InitVerdict ==
    /\ serviceVariant \in {"plain", "guarded"}
    /\ view = "coding_workspace"
    /\ isLoading = FALSE
    /\ pendingFetches = 0
    /\ activeCodingProblem \in 1..Len(TestCaseCounts)
    /\ language = "javascript"
    /\ code = StarterCode
    /\ isExecuting = FALSE
    /\ runResults = None
    /\ submissionResults = None
    /\ overallSubmissionStatus = Null
    /\ hint = Null
    /\ isHintLoading = FALSE
    /\ failureExplanation = Null
    /\ isExplanationLoading = FALSE
    /\ isCodingTimerRunning = TRUE
    /\ codeError = None
    /\ seconds = InitialSeconds
    /\ calls = <<>>
    /\ advisory = {}
    /\ attempts = <<>>
    /\ untouched = FALSE
    /\ HelpersAtRest

NextVerdict ==
    \/ ClickRun
    \/ ClickSubmit
    \/ \E i \in Pending :
          \/ \E r \in Responses(RequestSize(calls[i])) : EvalSettle(i, TRUE, r)
          \/ EvalSettle(i, FALSE, <<>>)

SpecVerdict == InitVerdict /\ [][NextVerdict]_vars

\* One problem session with the editor, the language select, the hint
\* button and the way to another problem.
NextHint ==
    \/ \E l \in Languages : SetLanguage(l)
    \/ EditCode
    \/ ClickRun
    \/ ClickSubmit
    \/ \E i \in Pending :
          \/ \E r \in Responses(RequestSize(calls[i])) : EvalSettle(i, TRUE, r)
          \/ EvalSettle(i, FALSE, <<>>)
    \/ ClickGetHint
    \/ \E a \in advisory, ok \in BOOLEAN : HintSettle(a, ok)
    \/ \E a \in advisory, ok \in BOOLEAN : ExplanationSettle(a, ok)

\* the session starts on a problem with two hidden cases
InitHint ==
    /\ InitVerdict
    /\ TestCaseCount(activeCodingProblem) = 2

SpecHint == InitHint /\ [][NextHint]_vars

\* One problem session with the attempt recorder: the user submits and
\* saveCodingResult settles some time later.
NextRecorder ==
    \/ ClickSubmit
    \/ \E i \in Pending :
          \/ \E r \in Responses(RequestSize(calls[i])) : EvalSettle(i, TRUE, r)
          \/ EvalSettle(i, FALSE, <<>>)
    \/ \E k \in 1..Len(attempts), ok \in BOOLEAN :
          handleCodingAttemptSettle(k, ok)

\* the session starts on a problem with at most one hidden case
InitRecorder ==
    /\ InitVerdict
    /\ TestCaseCount(activeCodingProblem) <= 1

SpecRecorder == InitRecorder /\ [][NextRecorder]_vars

\* One problem session that the user leaves alone: the countdown runs out
\* and the Timer submits.
NextTimer ==
    \/ TimerTick
    \/ TimerTimeout
    \/ \E i \in Pending :
          \/ \E r \in Responses(RequestSize(calls[i])) : EvalSettle(i, TRUE, r)
          \/ EvalSettle(i, FALSE, <<>>)

SpecTimer == InitVerdict /\ [][NextTimer]_vars

\* One problem session in which the user submits and, before the oracle
\* answers, edits the code, picks the other language or goes for another
\* problem.
NextCapture ==
    \/ GoCodingDifficulty
    \/ handleFetchCodingProblem
    \/ \E p \in ProblemIds : FetchResolve(p)
    \/ FetchReject
    \/ \E l \in Languages : SetLanguage(l)
    \/ EditCode
    \/ ClickSubmit
    \/ \E i \in Pending :
          \/ \E r \in Responses(RequestSize(calls[i])) : EvalSettle(i, TRUE, r)
          \/ EvalSettle(i, FALSE, <<>>)

\* the session starts on a problem the generator can hand out
InitCapture ==
    /\ InitVerdict
    /\ activeCodingProblem \in ProblemIds

SpecCapture == InitCapture /\ [][NextCapture]_vars

\* ------------------------------------------------- the helpers on their own
\* the pieces error texts are made of: the location shapes of the pattern,
\* their parts, and other characters
ErrorTokens ==
    {<<"l", "i", "n", "e", " ">>, <<"[", "L", "i", "n", "e", " ">>, <<"]">>,
     <<":">>, <<"0">>, <<"7">>, <<"1", "2">>, <<"p", "y">>, <<" ">>}

\* the texts made of at most n of the tokens
RECURSIVE TextsOf(_, _)
TextsOf(tokens, n) ==
    IF n = 0 THEN {<<>>}
    ELSE LET shorter == TextsOf(tokens, n - 1)
         IN  shorter \cup {t \o k : t \in shorter, k \in tokens}

InitParse ==
    /\ SessionAtRest
    /\ text \in TextsOf(ErrorTokens, MaxTokens)
    /\ diagnostic = None
    /\ stdin = <<>>
    /\ applied = 0
    /\ FunctionAtRest

\* a call of parseError
ExtractDiagnostic ==
    /\ applied = 0
    /\ diagnostic' = parseError(text)
    /\ applied' = 1
    /\ UNCHANGED <<componentVars, text, stdin, functionVars>>

SpecParse == InitParse /\ [][ExtractDiagnostic]_vars

\* the characters of test case inputs
InputChars == {<<"a">>, <<"=">>, <<" ">>, <<"\n">>}

InitStrip ==
    /\ SessionAtRest
    /\ text \in TextsOf(InputChars, MaxInputLen)
    /\ diagnostic = None
    /\ stdin = <<>>
    /\ applied = 0
    /\ FunctionAtRest

\* a call of extractInputValue, on the input and then on its own result
StripInput ==
    /\ applied < MaxApplications
    /\ stdin' = extractInputValue(IF applied = 0 THEN text ELSE stdin)
    /\ applied' = applied + 1
    /\ UNCHANGED <<componentVars, text, diagnostic, functionVars>>

SpecStrip == InitStrip /\ [][StripInput]_vars

\* ------------------------------------------------ the getTranscript function
\* transcriptParts.map(part => part.text).join(" ")
RECURSIVE JoinParts(_)
JoinParts(parts) ==
    IF parts = <<>> THEN <<>>
    ELSE IF Len(parts) = 1 THEN parts[1]
    ELSE parts[1] \o <<" ">> \o JoinParts(Tail(parts))

\* .replace(/\s+/g, ' ')
RECURSIVE CollapseWhitespace(_)
CollapseWhitespace(s) ==
    IF s = <<>> THEN <<>>
    ELSE IF Head(s) \in WhiteSpace
         THEN <<" ">> \o CollapseWhitespace(TrimStart(Tail(s)))
         ELSE <<Head(s)>> \o CollapseWhitespace(Tail(s))

\* fullTranscript of either version
FullTranscriptFirst(parts) == JoinParts(parts)
FullTranscriptSecond(parts) == Trim(CollapseWhitespace(JoinParts(parts)))
FullTranscript(parts) ==
    IF functionVariant = "first" THEN FullTranscriptFirst(parts)
    ELSE FullTranscriptSecond(parts)

\* the videoId test of either version
IsBadVideoIdFirst(videoId) == videoId = ""
IsBadVideoIdSecond(videoId) == videoId = "" \/ IdLength(videoId) # 11
IsBadVideoId(videoId) ==
    IF functionVariant = "first" THEN IsBadVideoIdFirst(videoId)
    ELSE IsBadVideoIdSecond(videoId)

\* the "source" of a transcript that was fetched, in either version
FetchedSource == IF functionVariant = "first" THEN "youtube-api" ELSE "youtube"

\* an invocation that waits at pc (get, fetch, set), and one whose response
\* has been sent
Waiting(method, videoId, pc, parts, fullTranscript) ==
    [method |-> method, videoId |-> videoId, pc |-> pc,
     transcriptParts |-> parts, fullTranscript |-> fullTranscript,
     status |-> 0, source |-> "", transcript |-> <<>>]
Responded(h, status, source, transcript) ==
    [h EXCEPT !.pc = "done", !.status = status, !.source = source,
              !.transcript = transcript]

\* a request arrives and the handler runs to transcriptDocRef.get()
getTranscript(method, videoId) ==
    LET h == Waiting(method, videoId, "get", <<>>, <<>>)
    IN  /\ Len(handlers) < MaxRequests
        /\ handlers' =
             Append(handlers,
                    IF functionVariant = "second" /\ method = "OPTIONS"
                    THEN Responded(h, 204, "", <<>>)
                    ELSE IF method # "POST" THEN Responded(h, 405, "", <<>>)
                    ELSE IF IsBadVideoId(videoId)
                         THEN Responded(h, 400, "", <<>>)
                         ELSE h)
        /\ UNCHANGED <<componentVars, text, diagnostic, stdin, applied,
                       functionVariant, transcripts>>

\* transcriptDocRef.get() settles: a hit answers from the document, a miss
\* goes on to fetchTranscript, a rejection ends in the catch
GetSettle(r, ok) ==
    LET h == handlers[r]
    IN  /\ r \in 1..Len(handlers)
        /\ h.pc = "get"
        /\ handlers' =
             [handlers EXCEPT ![r] =
                IF ~ok THEN Responded(h, 500, "", <<>>)
                ELSE IF transcripts[h.videoId] # None
                     THEN Responded(h, 200, "cache",
                                    TheValue(transcripts[h.videoId]))
                     ELSE [h EXCEPT !.pc = "fetch"]]
        /\ UNCHANGED <<componentVars, text, diagnostic, stdin, applied,
                       functionVariant, transcripts>>

\* a handler that stores the empty transcript of a video that has none
FetchSettleCachingMisses(r, ok, parts) ==
    LET h == handlers[r]
    IN  /\ r \in 1..Len(handlers)
        /\ h.pc = "fetch"
        /\ parts \in TranscriptParts
        /\ handlers' =
             [handlers EXCEPT ![r] =
                IF ~ok
                THEN IF functionVariant = "first"
                     THEN Responded(h, 500, "", <<>>)
                     ELSE Responded(h, 404, "", <<>>)
                ELSE IF Len(parts) = 0
                     THEN Responded(h, 404, "", <<>>)
                     ELSE [h EXCEPT !.pc = "set", !.transcriptParts = parts,
                                    !.fullTranscript = FullTranscript(parts)]]
        /\ transcripts' =
             IF ok /\ Len(parts) = 0
             THEN [transcripts EXCEPT ![h.videoId] = Some(<<>>)]
             ELSE transcripts
        /\ UNCHANGED <<componentVars, text, diagnostic, stdin, applied,
                       functionVariant>>

\* fetchTranscript settles: a rejection ends in the catch of the first
\* version and becomes null in the second; no parts end in 404; parts go on
\* to transcriptDocRef.set()
FetchSettle(r, ok, parts) ==
    LET h == handlers[r]
    IN  /\ r \in 1..Len(handlers)
        /\ h.pc = "fetch"
        /\ parts \in TranscriptParts
        /\ handlers' =
             [handlers EXCEPT ![r] =
                IF ~ok
                THEN IF functionVariant = "first"
                     THEN Responded(h, 500, "", <<>>)
                     ELSE Responded(h, 404, "", <<>>)
                ELSE IF Len(parts) = 0
                     THEN Responded(h, 404, "", <<>>)
                     ELSE [h EXCEPT !.pc = "set", !.transcriptParts = parts,
                                    !.fullTranscript = FullTranscript(parts)]]
        /\ UNCHANGED <<componentVars, text, diagnostic, stdin, applied,
                       functionVariant, transcripts>>

\* transcriptDocRef.set() settles: the document is written and the
\* transcript answered, or the rejection ends in the catch
SetSettle(r, ok) ==
    LET h == handlers[r]
    IN  /\ r \in 1..Len(handlers)
        /\ h.pc = "set"
        /\ IF ok
           THEN /\ transcripts' =
                     [transcripts EXCEPT ![h.videoId] = Some(h.fullTranscript)]
                /\ handlers' =
                     [handlers EXCEPT ![r] =
                        Responded(h, 200, FetchedSource, h.fullTranscript)]
           ELSE /\ handlers' =
                     [handlers EXCEPT ![r] = Responded(h, 500, "", <<>>)]
                /\ UNCHANGED transcripts
        /\ UNCHANGED <<componentVars, text, diagnostic, stdin, applied,
                       functionVariant>>

\* either version is deployed over a collection that earlier invocations may
\* have filled
InitTranscript ==
    /\ SessionAtRest
    /\ text = <<>>
    /\ diagnostic = None
    /\ stdin = <<>>
    /\ applied = 0
    /\ functionVariant \in {"first", "second"}
    /\ transcripts \in [DocIds -> {None, Some(<<"a">>)}]
    /\ handlers = <<>>

NextTranscript ==
    \/ \E method \in Methods, videoId \in VideoIds :
          getTranscript(method, videoId)
    \/ \E r \in 1..Len(handlers), ok \in BOOLEAN : GetSettle(r, ok)
    \/ \E r \in 1..Len(handlers), ok \in BOOLEAN, parts \in TranscriptParts :
          FetchSettle(r, ok, parts)
    \/ \E r \in 1..Len(handlers), ok \in BOOLEAN : SetSettle(r, ok)

SpecTranscript == InitTranscript /\ [][NextTranscript]_vars

\* ----------------------------------------------------------------- claims
AttemptsOf(i) == {k \in 1..Len(attempts) : attempts[k].call = i}
SyntheticList(n) == [k \in 1..n |-> SyntheticResult]
StatusesOf(rs) == [k \in 1..Len(rs) |-> rs[k].status]
AllAccepted(rs) == \A k \in 1..Len(rs) : rs[k].status = "Accepted"
\* call i is a Submit whose handler runs to its end in this step
SubmitCompletes(i) ==
    /\ i \in Pending
    /\ calls[i].kind = "submit"
    /\ calls'[i].state = "done"

\* C1: at most one judge evaluation is in flight at any time.
C1_AtMostOneInFlight == Cardinality(Pending) <= 1

\* C2: every Submit call whose handler has ended recorded exactly one
\* Attempt, and no call ever recorded more than one.
C2_ExactlyOneAttemptPerSubmit ==
    \A i \in 1..Len(calls) :
        /\ Cardinality(AttemptsOf(i)) <= 1
        /\ (calls[i].kind = "submit" /\ calls[i].state # "pending")
              => Cardinality(AttemptsOf(i)) = 1

\* C3: a Run or Submit issued (by a button or by the timer) while an
\* evaluation is pending changes nothing: no oracle call, no session state,
\* no Attempt.
C3_ReentrantIsNoOp ==
    [][(Pending # {} /\ (ClickRun \/ ClickSubmit \/ TimerTimeout))
          => UNCHANGED vars]_vars

\* C4: the Attempt of a Submit on a problem with no hidden test case is
\* Passed with score 100.
C4_VacuousPass ==
    \A k \in 1..Len(attempts) :
        TestCaseCount(attempts[k].testId) = 0
            => attempts[k].status = "Passed" /\ attempts[k].score = 10000

\* C5: a Submit whose handler runs to its end shows and aggregates exactly
\* one result per hidden case of its request; an answer of another length
\* is never aggregated.
C5_LengthMismatchRejected ==
    [][\A i \in 1..Len(calls) :
          SubmitCompletes(i)
             => /\ submissionResults' # None
                /\ Len(TheValue(submissionResults')) =
                      TestCaseCount(calls[i].problem)]_vars

\* C6: the verdict shown for a list of hidden-case results is Accepted iff
\* every case is Accepted, and otherwise the status of the first case, in
\* the original order, that is not Accepted.
C6_FirstFailureWins ==
    (submissionResults # None /\ overallSubmissionStatus \notin {Null, "Running"})
       => LET rs == TheValue(submissionResults)
          IN  /\ overallSubmissionStatus = "Accepted" <=> AllAccepted(rs)
              /\ ~AllAccepted(rs)
                    => \E k \in 1..Len(rs) :
                          /\ rs[k].status = overallSubmissionStatus
                          /\ rs[k].status # "Accepted"
                          /\ \A j \in 1..(k - 1) : rs[j].status = "Accepted"

\* the spec's example: [Accepted, Wrong Answer, Runtime Error] is shown as
\* Wrong Answer
C6_Witness ==
    /\ submissionResults # None
    /\ StatusesOf(TheValue(submissionResults)) =
          <<"Accepted", "Wrong Answer", "Runtime Error">>
    /\ overallSubmissionStatus = "Wrong Answer"

\* C7: the Attempt a Submit records is Passed exactly when every hidden test
\* case of the problem was Accepted.
C7_PassedIffAllHiddenAccepted ==
    [][\A i \in 1..Len(calls) :
          SubmitCompletes(i)
             => LET rs == TheValue(submissionResults')
                    a == attempts'[Len(attempts')]
                IN  a.status = "Passed"
                       <=> /\ Len(rs) = TestCaseCount(calls[i].problem)
                           /\ AllAccepted(rs)]_vars

\* C8: the score of the Attempt is the number of Accepted hidden cases over
\* the number of hidden cases, times 100, rounded to 2 decimals (here in
\* hundredths), for a problem that has hidden cases.
C8_ScoreOverAllHiddenCases ==
    [][\A i \in 1..Len(calls) :
          (SubmitCompletes(i) /\ TestCaseCount(calls[i].problem) > 0)
             => LET rs == TheValue(submissionResults')
                    a == attempts'[Len(attempts')]
                    n == TestCaseCount(calls[i].problem)
                    accepted == Cardinality({k \in 1..Len(rs) :
                                               rs[k].status = "Accepted"})
                IN  /\ a.score >= 0
                    /\ 2 * n * a.score - n <= 2 * accepted * 10000
                    /\ 2 * accepted * 10000 < 2 * n * a.score + n]_vars

\* C9: when the oracle call of a request of n cases fails, the judge client
\* returns n synthetic Compilation Error results; whatever the oracle
\* does, the judge client returns a list of the request's length.
C9_FailureGivesSyntheticResults ==
    [][\A i \in Pending :
          LET n == RequestSize(calls[i])
          IN  /\ EvalSettle(i, FALSE, <<>>)
                    => evaluateCodeWithAI(n, FALSE, <<>>) = Some(SyntheticList(n))
              /\ \A r \in Responses(n) :
                    EvalSettle(i, TRUE, r)
                       => /\ evaluateCodeWithAI(n, TRUE, r) # None
                          /\ Len(TheValue(evaluateCodeWithAI(n, TRUE, r))) = n]_vars

\* C10: when the judge call of a Submit fails, the handler still runs to its
\* end and records exactly one Attempt, with status Failed.
C10_FailedJudgeRecordsFailedAttempt ==
    [][\A i \in Pending :
          (calls[i].kind = "submit" /\ EvalSettle(i, FALSE, <<>>))
             => /\ calls'[i].state = "done"
                /\ Len(attempts') = Len(attempts) + 1
                /\ attempts'[Len(attempts')].call = i
                /\ attempts'[Len(attempts')].status = "Failed"]_vars

\* C11: when the judge call of a Run fails, the handler leaves the session
\* idle, shows no per-example results and sets no diagnostic.
C11_FailedRunShowsNothing ==
    [][\A i \in Pending :
          (calls[i].kind = "run" /\ EvalSettle(i, FALSE, <<>>))
             => /\ isExecuting' = FALSE
                /\ runResults' = None
                /\ codeError' = None]_vars

\* the session is idle and shows nothing
Clean ==
    /\ ~isExecuting
    /\ runResults = None
    /\ submissionResults = None
    /\ overallSubmissionStatus = Null
    /\ hint = Null
    /\ failureExplanation = Null
    /\ codeError = None

\* C12: from a change of language or problem until the next Run, Submit or
\* Get Hint the session is idle and results, verdict, hint, explanation and
\* diagnostic are empty, whatever call started earlier settles meanwhile.
C12_ResetStaysClean == untouched => Clean

\* C13: an advisory response requested before the latest Run or Submit
\* started is not stored: the step in which it settles leaves hint and
\* failureExplanation as they are.
C13_LateAdvisoryIgnored ==
    [][\A a \in advisory :
          (a \notin advisory' /\ Len(calls) > a.after)
             => /\ hint' = hint
                /\ failureExplanation' = failureExplanation]_vars

\* C14: a Run records no Attempt: neither the step that starts it nor the
\* step in which its handler ends changes the attempts.
C14_RunRecordsNothing ==
    [][/\ (Len(calls') > Len(calls) /\ calls'[Len(calls')].kind = "run")
            => attempts' = attempts
       /\ \A i \in Pending :
             (calls[i].kind = "run" /\ calls'[i].state # "pending")
                => attempts' = attempts]_vars

\* a Run has shown a failed example and nothing was recorded
C14_Witness ==
    /\ \E i \in 1..Len(calls) : calls[i].kind = "run" /\ calls[i].state = "done"
    /\ runResults # None
    /\ \E k \in 1..Len(TheValue(runResults)) :
          TheValue(runResults)[k].status = "Failed"
    /\ attempts = <<>>

\* the hint requests issued in this step
HintRequests == {a \in advisory' \ advisory : a.kind = "hint"}

C16_SettledCallLeavesExecuting ==
    [][\A i \in Pending :
          calls'[i].state # "pending"
             => /\ isExecuting' = FALSE
                /\ calls[i].kind = "submit"
                      => overallSubmissionStatus' # "Running"]_vars

\* the fixed texts shown for a failed advisory call
FallbackTexts ==
    {"Focus on the logic near the failing test case input.",
     "Sorry, an error occurred while generating a hint.",
     "An error occurred during analysis."}

\* C17: when a hint or explanation call fails, hint / failureExplanation
\* holds a fallback text, the loading flag is false again and the Run /
\* Submit state is as it was.
C17_AdvisoryFailureAbsorbed ==
    [][\A a \in advisory :
          /\ HintSettle(a, FALSE)
                => /\ hint' \in FallbackTexts
                   /\ ~isHintLoading'
                   /\ UNCHANGED <<isExecuting, resultVars, calls, attempts>>
          /\ ExplanationSettle(a, FALSE)
                => /\ failureExplanation' \in FallbackTexts
                   /\ ~isExplanationLoading'
                   /\ UNCHANGED <<isExecuting, resultVars, calls, attempts>>]_vars

\* C18: the step in which saveCodingResult fails changes neither the
\* verdict nor the results shown, does not set the executing state again
\* and starts no call, and the Submit that recorded the Attempt has ended.
C18_RecorderFailureOnlyLogged ==
    [][\A k \in 1..Len(attempts) :
          (attempts[k].saved = "saving" /\ attempts'[k].saved = "logged")
             => /\ overallSubmissionStatus' = overallSubmissionStatus
                /\ submissionResults' = submissionResults
                /\ isExecuting' = isExecuting
                /\ calls' = calls
                /\ calls[attempts[k].call].state = "done"]_vars

\* the recorder failed under an Accepted verdict, which is still shown
C18_Witness ==
    /\ \E k \in 1..Len(attempts) :
          attempts[k].saved = "logged" /\ attempts[k].status = "Passed"
    /\ overallSubmissionStatus = "Accepted"
    /\ ~isExecuting

\* out is s without the white space at its two ends
IsTrimOf(out, s) ==
    \E i \in 1..(Len(s) + 1), j \in 0..Len(s) :
        /\ out = SubSeq(s, i, j)
        /\ \A k \in 1..(i - 1) : s[k] \in WhiteSpace
        /\ \A k \in (j + 1)..Len(s) : s[k] \in WhiteSpace
        /\ i <= j => (s[i] \notin WhiteSpace /\ s[j] \notin WhiteSpace)

\* the places <<p, g>> of s where a location shape starts at p with its digit
\* group at g: path:digits, "line " digits, "[Line " digits "]"
PathShapes(s) ==
    {m \in (1..Len(s)) \X (3..Len(s)) :
        /\ m[1] < m[2] - 1
        /\ s[m[2] - 1] = ":"
        /\ s[m[2]] \in DigitChars
        /\ \A k \in m[1]..(m[2] - 2) : s[k] \in PathChars}
LineShapes(s) ==
    {<<p, p + 5>> : p \in {x \in 1..(Len(s) - 5) :
                              LineWordAt(s, x) /\ s[x + 5] \in DigitChars}}
BracketShapes(s) ==
    {<<p, p + 6>> : p \in {x \in 1..(Len(s) - 7) :
                              /\ s[x] = "["
                              /\ LineWordAt(s, x + 1)
                              /\ \E e \in (x + 6)..(Len(s) - 1) :
                                    /\ s[e + 1] = "]"
                                    /\ \A k \in (x + 6)..e :
                                          s[k] \in DigitChars}}
ShapeMatches(s) == PathShapes(s) \cup LineShapes(s) \cup BracketShapes(s)

\* the number written by the digits of s from g on
GroupValue(s, g) ==
    LET e == CHOOSE x \in g..Len(s) :
                 /\ \A k \in g..x : s[k] \in DigitChars
                 /\ x = Len(s) \/ s[x + 1] \notin DigitChars
    IN  parseInt(SubSeq(s, g, e))

\* C19: parseError returns null for the empty text; for any other text it
\* returns the trimmed text as message and, as lineNumber, the digit group
\* of the leftmost location shape of the text, or 1 when the text has none.
C19_DiagnosticExtraction ==
    applied = 1 =>
       IF text = <<>> THEN diagnostic = None
       ELSE /\ diagnostic # None
            /\ LET d == TheValue(diagnostic)
                   matches == ShapeMatches(text)
               IN  /\ IsTrimOf(d.message, text)
                   /\ matches = {} => d.lineNumber = 1
                   /\ matches # {} =>
                         \E m \in matches :
                            /\ \A o \in matches : m[1] <= o[1]
                            /\ d.lineNumber = GroupValue(text, m[2])

\* " py:12" gives line 12 and the message without the leading blank
C19_Witness ==
    /\ applied = 1
    /\ text = <<" ", "p", "y", ":", "1", "2">>
    /\ diagnostic = Some([lineNumber |-> 12,
                           message |-> <<"p", "y", ":", "1", "2">>])

\* out is input with every line replaced by the trimmed text after its
\* first '=', or by the trimmed line when it has no '='
StrippedFrom(input, out) ==
    LET li == Lines(input)
        lo == Lines(out)
    IN  /\ Len(lo) = Len(li)
        /\ \A k \in 1..Len(li) :
              LET eqs == {e \in 1..Len(li[k]) : li[k][e] = "="}
              IN  IF eqs = {} THEN IsTrimOf(lo[k], li[k])
                  ELSE \E e \in eqs :
                          /\ \A o \in eqs : e <= o
                          /\ IsTrimOf(lo[k], SubSeq(li[k], e + 1, Len(li[k])))

AtMostOneEqualsPerLine(input) ==
    \A k \in 1..Len(Lines(input)) :
        Cardinality({e \in 1..Len(Lines(input)[k]) : Lines(input)[k][e] = "="}) <= 1

\* C20 as stated: stripping forwards, line by line and in order, the trimmed
\* text after the first '=' (the trimmed line when there is none), and
\* stripping a stripped input returns it unchanged, for every input.
C20_StripIdempotentForEveryInput ==
    [][applied' = applied + 1 =>
          /\ applied = 0 => StrippedFrom(text, stdin')
          /\ applied >= 1 => stdin' = stdin]_vars

\* C20 as amended: the same, with the stripped input returned unchanged
\* when no line of the input has more than one '='.
C20_StripIdempotentOnSingleEquals ==
    [][applied' = applied + 1 =>
          /\ applied = 0 => StrippedFrom(text, stdin')
          /\ (applied >= 1 /\ AtMostOneEqualsPerLine(text)) => stdin' = stdin]_vars

\* "a=a\na" was stripped to "a\na" and stripped again
C20_Witness ==
    /\ applied >= 2
    /\ text = <<"a", "=", "a", "\n", "a">>
    /\ stdin = <<"a", "\n", "a">>


\* C21: no hidden test case is ever shown in full: in every reachable state
\* the workspace renders the input and the expected output of no hidden case.
C21_NoHiddenCaseShownInFull == ShownHiddenCases = {}

\* the countdown the README documents for a coding problem, in minutes
DocumentedMinutes == 20

\* C22: whenever a fetched problem becomes active, from the difficulty
\* selection or from "Next Problem", its countdown starts at the full 20
\* minutes.
C22_FreshCountdownPerProblem ==
    [][\A p \in ProblemIds :
          FetchResolve(p) => seconds' = DocumentedMinutes * 60]_vars

\* C23: a Submit that completes asks for an explanation exactly when its
\* first failing case is a Wrong Answer, for that case alone, and it has
\* recorded its Attempt, set its verdict and left the executing state in the
\* step that makes the request, the explanation still being in flight.
C23_ExplanationOnlyForFirstWrongAnswer ==
    [][\A i \in Pending :
          SubmitCompletes(i) =>
             LET rs == TheValue(submissionResults')
                 failing == {k \in 1..Len(rs) : rs[k].status # "Accepted"}
                 asked == advisory' \ advisory
             IN  /\ \A k \in failing :
                       (\A j \in failing : k <= j) =>
                          asked = IF rs[k].status = "Wrong Answer"
                                  THEN {[kind |-> "explanation", call |-> i,
                                         case |-> k, after |-> Len(calls)]}
                                  ELSE {}
                 /\ failing = {} => asked = {}
                 /\ asked \subseteq advisory'
                 /\ Len(attempts') = Len(attempts) + 1
                 /\ attempts'[Len(attempts')].call = i
                 /\ overallSubmissionStatus' \notin {Null, "Running"}
                 /\ isExecuting' = FALSE]_vars

\* a completed Submit whose second case is a Wrong Answer and whose third
\* case fails too, with the one explanation still in flight
C23_Witness ==
    /\ submissionResults # None
    /\ StatusesOf(TheValue(submissionResults))
          = <<"Accepted", "Wrong Answer", "Runtime Error">>
    /\ overallSubmissionStatus = "Wrong Answer"
    /\ \E a \in advisory : advisory = {a} /\ a.kind = "explanation" /\ a.case = 2
    /\ isExplanationLoading
    /\ ~isExecuting
    /\ Len(attempts) = 1


\* the error text of the first failing case of displayed Run results
FirstFailedRunText(rs) ==
    LET failing == {k \in 1..Len(rs) : rs[k].status = "Failed"}
    IN  IF failing = {} THEN EmptyText
        ELSE rs[CHOOSE k \in failing : \A j \in failing : k <= j].error

\* the error text of the first failing case of displayed Submit results
FirstFailedSubmitText(rs) ==
    LET failing == {k \in 1..Len(rs) : rs[k].status # "Accepted"}
    IN  IF failing = {} THEN EmptyText
        ELSE LET r == rs[CHOOSE k \in failing : \A j \in failing : k <= j]
             IN  OrText(r.compile_output, r.stderr)

\* C24: every Run and Submit that starts clears the diagnostic, and when an
\* evaluation completes the diagnostic is absent or is the one extracted
\* from the error text of the first failing case of that evaluation.
C24_DiagnosticFromFirstFailingCase ==
    [][/\ Len(calls') > Len(calls) => codeError' = None
       /\ \A i \in Pending :
             calls'[i].state = "done" =>
                \/ codeError' = None
                \/ codeError' =
                     parseError(IF calls[i].kind = "run"
                                THEN FirstFailedRunText(TheValue(runResults'))
                                ELSE FirstFailedSubmitText(
                                        TheValue(submissionResults')))]_vars


\* C25: every Diagnostic the extractor produces has lineNumber >= 1, also
\* when the digit group it matched is 0.
C25_LineNumberAtLeastOne ==
    diagnostic # None => TheValue(diagnostic).lineNumber >= 1

\* the kinds of location shape, by priority, that s holds
ShapeKinds(s) == <<PathShapes(s), LineShapes(s), BracketShapes(s)>>
SeveralKinds(s) ==
    Cardinality({k \in 1..3 : ShapeKinds(s)[k] # {}}) >= 2

\* C26 as stated: for a text with shapes of several kinds the line number is
\* the digit group of a shape of the highest-priority kind present
\* (path:digits, then "line " digits, then [Line digits]), wherever it is.
C26_HighestPriorityShapeWins ==
    (applied = 1 /\ SeveralKinds(text)) =>
       LET kinds == ShapeKinds(text)
           best == CHOOSE k \in 1..3 :
                      /\ kinds[k] # {}
                      /\ \A j \in 1..(k - 1) : kinds[j] = {}
       IN  \E m \in kinds[best] :
              TheValue(diagnostic).lineNumber = GroupValue(text, m[2])

\* C26, amended: for a text with shapes of several kinds the line number is
\* the digit group of the shape that starts leftmost in the text, whatever
\* its kind.
C26_LeftmostShapeWins ==
    (applied = 1 /\ SeveralKinds(text)) =>
       \A m \in ShapeMatches(text) :
          (\A o \in ShapeMatches(text) : m[1] <= o[1])
             => TheValue(diagnostic).lineNumber = GroupValue(text, m[2])

\* "line 7:12" holds "line 7" and then "7:12": the line is 7
C26_Witness ==
    /\ applied = 1
    /\ text = <<"l", "i", "n", "e", " ", "7", ":", "1", "2">>
    /\ diagnostic # None
    /\ TheValue(diagnostic).lineNumber = 7


\* request r gets its response in this step
Answers(r) ==
    /\ r \in 1..Len(handlers')
    /\ handlers'[r].status # 0
    /\ r \in 1..Len(handlers) => handlers[r].status = 0

\* C27: a transcripts document is written only by an invocation whose fetch
\* returned parts, as it answers with the fetched transcript; a response of
\* 400, 404, 405 or 500 comes with the collection unchanged; and a read that
\* finds the document answers 200 with the stored transcript and source
\* "cache", with no fetch and no write (a read that fails answers 500, again
\* with no fetch and no write).
C27_OnlyFetchedTranscriptsAreCached ==
    [][/\ transcripts' # transcripts =>
             \E r \in 1..Len(handlers) :
                LET h == handlers[r]
                IN  /\ h.pc = "set"
                    /\ h.transcriptParts # <<>>
                    /\ handlers'[r].status = 200
                    /\ handlers'[r].source \in {"youtube", "youtube-api"}
                    /\ handlers'[r].transcript = h.fullTranscript
                    /\ transcripts' =
                         [transcripts EXCEPT
                            ![h.videoId] = Some(h.fullTranscript)]
       /\ \A r \in 1..Len(handlers') :
             (Answers(r) /\ handlers'[r].status \in {400, 404, 405, 500})
                => transcripts' = transcripts
       /\ \A r \in 1..Len(handlers) :
             (/\ handlers[r].pc = "get"
              /\ handlers'[r].pc # "get"
              /\ transcripts[handlers[r].videoId] # None)
                => /\ handlers'[r].pc = "done"
                   /\ transcripts' = transcripts
                   /\ \/ handlers'[r].status = 500
                      \/ /\ handlers'[r].status = 200
                         /\ handlers'[r].source = "cache"
                         /\ handlers'[r].transcript =
                              TheValue(transcripts[handlers[r].videoId])]_vars

\* one request found no transcript and left no document, another was
\* answered from the cache with the transcript stored there
C27_Witness ==
    /\ Len(handlers) = 2
    /\ handlers[1].status = 404
    /\ transcripts[handlers[1].videoId] = None
    /\ handlers[2].status = 200
    /\ handlers[2].source = "cache"
    /\ handlers[2].transcript = <<"a">>
    /\ transcripts[handlers[2].videoId] = Some(<<"a">>)


\* C28: with a user who does nothing, the expired countdown submits once:
\* at most one Submit is ever started and at most one Attempt recorded, also
\* after the automatic submission has ended with a failing verdict.
C28_AutoSubmitFiresOnce ==
    /\ Cardinality({i \in 1..Len(calls) : calls[i].kind = "submit"}) <= 1
    /\ Len(attempts) <= 1

\* C29: whenever overallSubmissionStatus holds a final verdict,
\* submissionResults holds the results that verdict was computed from.
C29_VerdictComesWithResults ==
    overallSubmissionStatus \notin {Null, "Running"} =>
       /\ submissionResults # None
       /\ LET rs == TheValue(submissionResults)
          IN  overallSubmissionStatus =
                 IF FirstNotPassed(rs) = 0 THEN "Accepted"
                 ELSE rs[FirstNotPassed(rs)].status

\* C30: a Submit call is issued with the problem, language and code then on
\* screen and keeps them while it is pending; the Attempt recorded when it
\* completes carries them, and its status and score are those of the
\* results for that problem's hidden cases, whatever is on screen by then.
C30_AttemptCarriesWhatWasSubmitted ==
    [][/\ Len(calls') > Len(calls) =>
             LET c == calls'[Len(calls')]
             IN  /\ c.problem = activeCodingProblem
                 /\ c.language = language
                 /\ c.code = code
       /\ \A i \in Pending : calls'[i].state = "pending" => calls'[i] = calls[i]
       /\ \A i \in Pending :
             SubmitCompletes(i) =>
                LET a == attempts'[Len(attempts')]
                    rs == TheValue(submissionResults')
                IN  /\ Len(attempts') = Len(attempts) + 1
                    /\ a.call = i
                    /\ a.testId = calls[i].problem
                    /\ a.language = calls[i].language
                    /\ a.codeSubmitted = calls[i].code
                    /\ Len(rs) <= TestCaseCount(calls[i].problem)
                    /\ a.status = IF AllAccepted(rs) THEN "Passed" ELSE "Failed"
                    /\ a.score = Score(PassedCount(rs), Len(rs))]_vars

\* the Attempt of edited javascript code for one problem was recorded after
\* the user had moved to python and to another problem
C30_Witness ==
    /\ untouched
    /\ submissionResults # None
    /\ Len(attempts) = 1
    /\ attempts[1].codeSubmitted = EditedCode
    /\ code = StarterCode
    /\ attempts[1].language = "javascript"
    /\ language = "python"
    /\ attempts[1].testId # activeCodingProblem
    /\ Len(TheValue(submissionResults)) = TestCaseCount(attempts[1].testId)
    /\ Len(TheValue(submissionResults)) > TestCaseCount(activeCodingProblem)

====
